---- MODULE Spec2Model ----
(***************************************************************************)
(* Model of the image converter (converter/image_converter.py).            *)
(*                                                                         *)
(* ImageConverter.convert_batch runs convert_single for every file pair    *)
(* on a thread pool; convert_single decodes the input and writes the       *)
(* output either directly (fixed method) or through _try_both_webp, which  *)
(* encodes every candidate to '_temp_' + name and renames the smallest     *)
(* into place.  Every filesystem call of the code is one step of the       *)
(* model, so that the steps of concurrently running tasks interleave.      *)
(* The converter is modelled for output_format = 'webp', the one format    *)
(* for which both the fixed and the auto branch of convert_single exist.   *)
(* Image.save (Pillow) is three steps: it asks whether the file exists,    *)
(* opens it with "w+b", then encodes and closes it, or raises and removes  *)
(* the file if it had found none.  An input is described by what the       *)
(* code can observe of it: whether it exists and decodes, and the size of  *)
(* each encoding.  Image dimensions, resizing and reduction_pct do not     *)
(* influence control flow or the filesystem and are left out of the        *)
(* outcome record.                                                         *)
(*                                                                         *)
(* The web application (webapp/routes.py, webapp/utils.py) calls           *)
(* convert_batch with outputs in the conversion directory of a session     *)
(* while its cleanup thread removes session directories that have not      *)
(* been modified for SESSION_MAX_AGE seconds: a batch runs either with no  *)
(* cleanup thread or with one whose sweep has come to the directory of     *)
(* the outputs.  shutil.rmtree is the system calls it makes: os.scandir    *)
(* lists the directory, os.unlink removes each listed file, os.rmdir       *)
(* removes the directory if nothing is left in it; the other threads run   *)
(* between them.                                                           *)
(***************************************************************************)
EXTENDS Integers, Sequences, FiniteSets, TLC

(* ------------------------------ bounds --------------------------------- *)

\* Largest number of file pairs handed to convert_batch.
MaxTasks == 2

\* Largest byte size of an encoded candidate; 0 stands for "encoding raises".
MaxSize == 2

\* Largest width or height of an image or of a target box (besides the
\* sizes of the documented examples).
MaxDim == 9

\* Largest number of session ids in use.
MaxSessions == 1

\* Largest number of sleep intervals that pass while the application runs.
MaxTicks == 1

\* Largest number of steps of requests (calls of a session directory
\* function, file operations) while the application runs.
MaxRequests == 2

\* Largest number of files in the upload directory of a session when its
\* conversion is requested.
MaxUploads == 3

\* best_size = float('inf'): larger than the size of any file.
INF == 1000

(* ------------------------------ values --------------------------------- *)

\* Python's None (the initial value of result['error']).
None == "None"

\* methods.items() of _try_both_webp, in dict order.
Methods == <<"lossless", "lossy">>

\* Values of ImageConverter.method.
MethodValues == {"auto", "lossless", "lossy"}

\* Directory in which outputs can be created, and one that cannot be created.
ConvDir == "conversions"
BadDir == "readonly"

Path(d, n) == [dir |-> d, name |-> n]

\* temp_path = output_path.parent / f'_temp_{output_path.name}'
temp_path(p) == [dir |-> p.dir, name |-> "_temp_" \o p.name]

\* Output file names of a batch.  "_temp_a.webp" is the name the selector
\* derives for the temporary file of "a.webp".
OutNames == {"a.webp", "_temp_a.webp", "b.webp"}

GoodOutPaths == {Path(ConvDir, n) : n \in OutNames}
OutPaths == GoodOutPaths \cup {Path(BadDir, "a.webp")}

\* Every path of the conversions directory the code may touch.
FsPaths == GoodOutPaths \cup {temp_path(p) : p \in GoodOutPaths}

(* A file of the filesystem: who wrote it last, with which settings, its   *)
(* byte size, and whether it is absent, being written (open for writing), *)
(* truncated (a write that failed after the open) or whole.               *)
NoFile == [by |-> 0, enc |-> "none", size |-> 0, state |-> "absent"]
StaleFile == [by |-> 0, enc |-> "earlier", size |-> MaxSize + 1, state |-> "whole"]
OpenFile(i, m) == [by |-> i, enc |-> m, size |-> 0, state |-> "writing"]

Exists(f, p) == f[p].state # "absent"

\* The directory of the outputs, output_path.parent: absent, or a directory
\* with the time at which it was modified last.
NoDir == [kind |-> "absent", mtime |-> 0]
OutputDir(t) == [kind |-> "dir", mtime |-> t]

\* Size of the source image on disk.
OrigSize == MaxSize + 1

(* ------------------------------ inputs --------------------------------- *)

\* What the two encoders make of a decoded image: the byte size each
\* candidate would have, 0 when img.save raises for that candidate.
Encodings == [{"lossless", "lossy"} -> 0..MaxSize]

NoEncoding == [lossless |-> 0, lossy |-> 0]

\* An input file: missing, present but not decodable, or a decodable image.
Inputs ==
    {[kind |-> "missing", enc |-> NoEncoding],
     [kind |-> "corrupt", enc |-> NoEncoding]}
    \cup {[kind |-> "ok", enc |-> e] : e \in Encodings}

\* Inputs of the batches of several pairs: a missing file, an image neither
\* encoder accepts, an image whose lossy encoding is the smaller one, and
\* one whose two encodings have the same size.
BatchInputs ==
    {[kind |-> "missing", enc |-> NoEncoding],
     [kind |-> "ok", enc |-> NoEncoding],
     [kind |-> "ok", enc |-> [lossless |-> MaxSize, lossy |-> 1]],
     [kind |-> "ok", enc |-> [lossless |-> 1, lossy |-> 1]]}

\* Inputs of the batches of more than two pairs, which are there for the
\* pool and the lock: missing files.
PoolInputs == {[kind |-> "missing", enc |-> NoEncoding]}

\* The output paths in a fixed order.
OutOrder ==
    <<Path(ConvDir, "a.webp"), Path(ConvDir, "_temp_a.webp"),
      Path(ConvDir, "b.webp"), Path(BadDir, "a.webp")>>

Rank(p) == CHOOSE k \in DOMAIN OutOrder : OutOrder[k] = p

\* Lists of n pairs (input_path, output_path) with pairwise distinct output
\* paths.  A single pair ranges over every input; the input of a pair whose
\* output directory cannot be created is never read.  A list of more than
\* two pairs has its output paths in the fixed order.
FilePairLists(n) ==
    {fp \in [1..n -> [input : IF n = 1 THEN Inputs
                              ELSE IF n = 2 THEN BatchInputs ELSE PoolInputs,
                      output : OutPaths]] :
        /\ \A i, j \in 1..n : i # j => fp[i].output # fp[j].output
        /\ \A i \in 1..n : fp[i].output.dir = BadDir => fp[i].input.kind = "missing"
        /\ n > 2 => \A i, j \in 1..n :
                       i < j => Rank(fp[i].output) < Rank(fp[j].output)}

(* --------------------------- convert_single ---------------------------- *)

\* result = {...}: the dict convert_single starts from.
InitResult(i, pair) ==
    [input_path |-> i, output_path |-> pair.output,
     original_size_kb |-> 0, converted_size_kb |-> 0,
     method_used |-> "", success |-> FALSE, error |-> None]

\* Local state of one call of _convert / convert_single / _try_both_webp.
InitLocal(i, pair) ==
    [pc |-> "queued", m |-> 1, best_size |-> INF, best_method |-> "lossy",
     size |-> 0, created |-> FALSE, tried |-> {}, encoded |-> {},
     result |-> InitResult(i, pair)]

\* except Exception as e: result['error'] = str(e); return result
Fail(l, err) == [l EXCEPT !.pc = "append", !.result.error = err]

\* output_path.parent.mkdir(parents=True, exist_ok=True), outside the try:
\* an error leaves convert_single (and _convert) as an exception.
Mkdir(pair, l) ==
    IF pair.output.dir = BadDir
    THEN [l EXCEPT !.pc = "raised"]
    ELSE [l EXCEPT !.pc = "decode"]

\* os.path.getsize(input_path), Image.open, the mode conversion and the copy,
\* then the branch on the method.
Decode(meth, pair, l) ==
    IF pair.input.kind = "missing"
    THEN Fail(l, "FileNotFoundError: input")
    ELSE LET l1 == [l EXCEPT !.result.original_size_kb = OrigSize] IN
         IF pair.input.kind = "corrupt"
         THEN Fail(l1, "UnidentifiedImageError")
         ELSE IF meth = "auto"
              THEN [l1 EXCEPT !.pc = "a_new", !.m = 1,
                              !.best_size = INF, !.best_method = "lossy"]
              ELSE [l1 EXCEPT !.pc = "f_new"]

\* convert_single up to its first access to the output files: these
\* statements touch nothing another task of the batch touches.
Begin(meth, pair, l) ==
    LET l1 == Mkdir(pair, l) IN
    IF l1.pc = "raised" THEN l1 ELSE Decode(meth, pair, l1)

\* img.save, first step: created = not os.path.exists(filename)
SaveNew(p, l, f) == [l EXCEPT !.created = ~Exists(f, p)]

\* img.save, second step: open(filename, "w+b") creates the file or
\* truncates what is there.
SaveOpen(i, m, p, f) == [f EXCEPT ![p] = OpenFile(i, m)]

\* The file task i holds open for writing, wherever a rename has moved it.
OpenBy(i, f) == {q \in FsPaths : f[q].state = "writing" /\ f[q].by = i}

\* img.save, third step: the encoder writes s bytes and the file is closed,
\* or (s = 0) the encoder raises, and Image.save removes the file if it had
\* created it.  ok tells which; gone tells that os.remove found no file at
\* the path, so that its FileNotFoundError leaves img.save in place of the
\* error of the encoder.
SaveWrite(i, s, p, l, f) ==
    IF s > 0
    THEN [ok |-> TRUE,
          gone |-> FALSE,
          f |-> [q \in FsPaths |->
                   IF q \in OpenBy(i, f)
                   THEN [f[q] EXCEPT !.size = s, !.state = "whole"]
                   ELSE f[q]]]
    ELSE LET f1 == [q \in FsPaths |->
                      IF q \in OpenBy(i, f)
                      THEN [f[q] EXCEPT !.state = "truncated"]
                      ELSE f[q]]
         IN [ok |-> FALSE,
             gone |-> l.created /\ ~Exists(f1, p),
             f |-> IF l.created /\ Exists(f1, p)
                   THEN [f1 EXCEPT ![p] = NoFile]
                   ELSE f1]

\* if size < best_size
Smaller(size, best) == size < best

\* The end of one iteration of "for method_name, settings in methods.items()":
\* the next candidate, or "return best_method" and
\* result['method_used'] = method_used.
NextCandidate(l) ==
    IF l.m < Len(Methods)
    THEN [l EXCEPT !.pc = "a_new", !.m = l.m + 1]
    ELSE [l EXCEPT !.pc = "stat_out", !.result.method_used = l.best_method]

\* An exception inside the try of the loop: control goes to the handler.
Except(l) == [l EXCEPT !.pc = "x_exists"]

\* img.save(temp_path, 'WEBP', **settings) begins for the next candidate.
ANew(pair, l, f) ==
    [l |-> [SaveNew(temp_path(pair.output), l, f)
               EXCEPT !.pc = "a_open", !.tried = l.tried \cup {Methods[l.m]}],
     f |-> f]

\* img.save(temp_path, 'WEBP', **settings), the open.
AOpen(i, pair, l, f) ==
    [l |-> [l EXCEPT !.pc = "a_write"],
     f |-> SaveOpen(i, Methods[l.m], temp_path(pair.output), f)]

\* img.save(temp_path, 'WEBP', **settings), the encoding.
AWrite(i, pair, l, f) ==
    LET r == SaveWrite(i, pair.input.enc[Methods[l.m]], temp_path(pair.output), l, f) IN
    [l |-> IF r.ok
           THEN [l EXCEPT !.pc = "a_stat", !.encoded = @ \cup {Methods[l.m]}]
           ELSE Except(l),
     f |-> r.f]

\* size = os.path.getsize(temp_path); if size < best_size: best_size = size;
\* best_method = method_name
AStat(pair, l, f) ==
    LET t == temp_path(pair.output) IN
    IF ~Exists(f, t)
    THEN [l |-> Except(l), f |-> f]
    ELSE IF Smaller(f[t].size, l.best_size)
         THEN [l |-> [l EXCEPT !.pc = "a_exists", !.size = f[t].size,
                               !.best_size = f[t].size,
                               !.best_method = Methods[l.m]],
               f |-> f]
         ELSE [l |-> [l EXCEPT !.pc = "a_discard", !.size = f[t].size], f |-> f]

\* if output_path.exists():
AExists(pair, l, f) ==
    [l |-> [l EXCEPT !.pc = IF Exists(f, pair.output) THEN "a_unlink" ELSE "a_rename"],
     f |-> f]

\* output_path.unlink()
AUnlink(pair, l, f) ==
    IF ~Exists(f, pair.output)
    THEN [l |-> Except(l), f |-> f]
    ELSE [l |-> [l EXCEPT !.pc = "a_rename"],
          f |-> [f EXCEPT ![pair.output] = NoFile]]

\* temp_path.rename(output_path)
ARename(pair, l, f) ==
    LET t == temp_path(pair.output) IN
    IF ~Exists(f, t)
    THEN [l |-> Except(l), f |-> f]
    ELSE [l |-> NextCandidate(l),
          f |-> [f EXCEPT ![pair.output] = f[t], ![t] = NoFile]]

\* else: temp_path.unlink()
ADiscard(pair, l, f) ==
    LET t == temp_path(pair.output) IN
    IF ~Exists(f, t)
    THEN [l |-> Except(l), f |-> f]
    ELSE [l |-> NextCandidate(l), f |-> [f EXCEPT ![t] = NoFile]]

\* except Exception: if temp_path.exists():
XExists(pair, l, f) ==
    [l |-> IF Exists(f, temp_path(pair.output))
           THEN [l EXCEPT !.pc = "x_unlink"]
           ELSE NextCandidate(l),
     f |-> f]

\* temp_path.unlink() in the handler; an error here leaves _try_both_webp and
\* is caught by convert_single.
XUnlink(pair, l, f) ==
    LET t == temp_path(pair.output) IN
    IF ~Exists(f, t)
    THEN [l |-> Fail(l, "FileNotFoundError: temp"), f |-> f]
    ELSE [l |-> NextCandidate(l), f |-> [f EXCEPT ![t] = NoFile]]

\* processed.save(output_path, pillow_fmt, **kwargs) begins.
FNew(pair, l, f) ==
    [l |-> [SaveNew(pair.output, l, f) EXCEPT !.pc = "f_open"], f |-> f]

\* processed.save(output_path, pillow_fmt, **kwargs), the open.
FOpen(i, meth, pair, l, f) ==
    [l |-> [l EXCEPT !.pc = "f_write"],
     f |-> SaveOpen(i, meth, pair.output, f)]

\* processed.save(output_path, pillow_fmt, **kwargs), the encoding, and
\* result['method_used'] = self.method
FWrite(i, meth, pair, l, f) ==
    LET r == SaveWrite(i, pair.input.enc[meth], pair.output, l, f) IN
    [l |-> IF r.ok
           THEN [l EXCEPT !.pc = "stat_out", !.result.method_used = meth]
           ELSE Fail(l, IF r.gone THEN "FileNotFoundError: output"
                                  ELSE "OSError: encoder error"),
     f |-> r.f]

\* converted_size = os.path.getsize(output_path); result['success'] = True
StatOut(pair, l, f) ==
    IF ~Exists(f, pair.output)
    THEN [l |-> Fail(l, "FileNotFoundError: output"), f |-> f]
    ELSE [l |-> [l EXCEPT !.pc = "append",
                          !.result.converted_size_kb = f[pair.output].size,
                          !.result.success = TRUE],
          f |-> f]

\* One step of convert_single for task i, by the place the call is at.
TaskStep(i, meth, pair, l, f) ==
    CASE l.pc = "queued"    -> [l |-> Begin(meth, pair, l), f |-> f]
      [] l.pc = "a_new"     -> ANew(pair, l, f)
      [] l.pc = "a_open"    -> AOpen(i, pair, l, f)
      [] l.pc = "a_write"   -> AWrite(i, pair, l, f)
      [] l.pc = "a_stat"    -> AStat(pair, l, f)
      [] l.pc = "a_exists"  -> AExists(pair, l, f)
      [] l.pc = "a_unlink"  -> AUnlink(pair, l, f)
      [] l.pc = "a_rename"  -> ARename(pair, l, f)
      [] l.pc = "a_discard" -> ADiscard(pair, l, f)
      [] l.pc = "x_exists"  -> XExists(pair, l, f)
      [] l.pc = "x_unlink"  -> XUnlink(pair, l, f)
      [] l.pc = "f_new"     -> FNew(pair, l, f)
      [] l.pc = "f_open"    -> FOpen(i, meth, pair, l, f)
      [] l.pc = "f_write"   -> FWrite(i, meth, pair, l, f)
      [] l.pc = "stat_out"  -> StatOut(pair, l, f)

\* A save that finds the directory of its path removed: the open of
\* Image.save raises FileNotFoundError before anything is written.  Inside
\* the loop of _try_both_webp the handler takes it; in the fixed branch it
\* ends the call.
OpenFails(l) ==
    IF l.pc = "a_open"
    THEN Except(l)
    ELSE Fail(l, "FileNotFoundError: output")

\* One step of convert_single for task i while the directory of the outputs
\* is d.  Only the opens need the directory: every other statement finds
\* that its file is absent.
TaskStepIn(d, i, meth, pair, l, f) ==
    IF d.kind = "absent" /\ l.pc \in {"a_open", "f_open"}
    THEN [l |-> OpenFails(l), f |-> f]
    ELSE TaskStep(i, meth, pair, l, f)

\* The directory d after a step at time t that took its files from f to g:
\* creating, renaming and deleting a file modify the directory, writing
\* into a file does not.
Modified(d, f, g, t) ==
    IF {p \in FsPaths : Exists(f, p)} # {p \in FsPaths : Exists(g, p)}
    THEN [d EXCEPT !.mtime = t]
    ELSE d

\* convert_single run from its first to its last statement on filesystem f:
\* the local state at its return (or raise) and the filesystem it leaves.
RECURSIVE RunCall(_, _, _, _, _)
RunCall(i, meth, pair, l, f) ==
    IF l.pc \in {"append", "raised"}
    THEN [l |-> l, f |-> f]
    ELSE LET r == TaskStep(i, meth, pair, l, f) IN RunCall(i, meth, pair, r.l, r.f)

\* convert_batch with max_workers = 1: the one worker runs the calls in
\* submission order, each to its end; the outcomes appended from pair i on.
RECURSIVE SeqRun(_, _, _, _, _)
SeqRun(i, meth, fp, f, res) ==
    IF i > Len(fp)
    THEN res
    ELSE LET r == RunCall(i, meth, fp[i], InitLocal(i, fp[i]), f) IN
         SeqRun(i + 1, meth, fp, r.f,
                IF r.l.pc = "append" THEN Append(res, r.l.result) ELSE res)

(* --------------------- Python floats (IEEE doubles) -------------------- *)

(* calculate_aspect_ratio_resize computes with Python's "/" and "*" on     *)
(* floats: every operation returns the double nearest to the exact result *)
(* (ties to the even mantissa).  A positive double is m * 2^e with a      *)
(* 53-bit mantissa, 2^52 <= m < 2^53.  Mantissas do not fit the integers  *)
(* of the checker, so a natural number is kept as three limbs             *)
(* <<hi, mid, lo>> to the base 2^20.                                      *)

\* The base of the limbs, 2^20.
Limb == 1048576

\* The natural numbers 0, 2^52 and 2^53 in limbs.
BigZero == <<0, 0, 0>>
Two52 == <<4096, 0, 0>>
Two53 == <<8192, 0, 0>>

\* An int of the program (below 2^31) in limbs.
Big(n) == <<0, n \div Limb, n % Limb>>

\* The limbs brought back below the base, carrying upwards.
Carry(a) ==
    LET mid == a[2] + (a[3] \div Limb) IN
    <<a[1] + (mid \div Limb), mid % Limb, a[3] % Limb>>

BigLess(a, b) ==
    \/ a[1] < b[1]
    \/ a[1] = b[1] /\ a[2] < b[2]
    \/ a[1] = b[1] /\ a[2] = b[2] /\ a[3] < b[3]

BigOdd(a) == a[3] % 2 = 1

BigTwice(a) == Carry(<<2 * a[1], 2 * a[2], 2 * a[3]>>)

\* a * k for an int k below 2^11.
BigTimes(a, k) == Carry(<<a[1] * k, a[2] * k, a[3] * k>>)

BigPlusOne(a) == Carry(<<a[1], a[2], a[3] + 1>>)

\* a - b for a >= b.
BigMinus(a, b) ==
    LET lo == a[3] - b[3]
        bl == IF lo < 0 THEN 1 ELSE 0
        mid == a[2] - b[2] - bl
        bm == IF mid < 0 THEN 1 ELSE 0
    IN <<a[1] - b[1] - bm, mid + bm * Limb, lo + bl * Limb>>

\* The int a natural number below 2^31 is.
BigInt(a) == (a[1] * Limb + a[2]) * Limb + a[3]

\* a * 2^n, ten binary places at a time.
RECURSIVE BigShiftLeft(_, _)
BigShiftLeft(a, n) ==
    IF n > 10
    THEN BigShiftLeft(BigTimes(a, 2^10), n - 10)
    ELSE BigTimes(a, 2^n)

\* a div 2^n, ten binary places at a time.
RECURSIVE BigShiftRight(_, _)
BigShiftRight(a, n) ==
    IF n > 10
    THEN BigShiftRight(BigShiftRight(a, 10), n - 10)
    ELSE <<a[1] \div 2^n,
           (a[2] + (a[1] % 2^n) * Limb) \div 2^n,
           (a[3] + (a[2] % 2^n) * Limb) \div 2^n>>

\* The number of binary digits of a limb.
Bits(x) == CHOOSE k \in 0..30 : x < 2^k /\ (k = 0 \/ x >= 2^(k - 1))

\* The number of binary digits of a natural number.
BigBits(a) ==
    IF a[1] > 0 THEN 40 + Bits(a[1])
    ELSE IF a[2] > 0 THEN 20 + Bits(a[2])
    ELSE Bits(a[3])

\* The double m * 2^e or the next one, for a mantissa m of 53 bits that was
\* cut off: guard is the first binary digit cut off, sticky tells whether
\* any later one was not zero.  The mantissa is rounded up when what was cut
\* off is more than half a unit, or half a unit and m is odd.
Nearest(m, e, guard, sticky) ==
    IF guard /\ (sticky \/ BigOdd(m))
    THEN IF BigPlusOne(m) = Two53
         THEN [m |-> Two52, e |-> e + 1]
         ELSE [m |-> BigPlusOne(m), e |-> e]
    ELSE [m |-> m, e |-> e]

\* The double nearest to p * 2^e for a natural number p of 53 to 64 binary
\* digits.
Rounded(p, e) ==
    LET s == BigBits(p) - 53
        cut == p[3] % 2^s
    IN IF s = 0
       THEN [m |-> p, e |-> e]
       ELSE Nearest(BigShiftRight(p, s), e + s,
                    cut >= 2^(s - 1), cut % 2^(s - 1) # 0)

\* k binary digits of the quotient r / d for r < 2d, appended to q, and the
\* rest (doubled).  Once nothing is left every further digit is 0.
RECURSIVE Digits(_, _, _, _)
Digits(r, d, q, k) ==
    IF k = 0
    THEN [q |-> q, r |-> r]
    ELSE IF r = BigZero
    THEN [q |-> BigShiftLeft(q, k), r |-> r]
    ELSE IF k = 1
         THEN IF BigLess(r, d)
              THEN [q |-> BigTwice(q), r |-> BigTwice(r)]
              ELSE [q |-> BigPlusOne(BigTwice(q)), r |-> BigTwice(BigMinus(r, d))]
         ELSE LET first == Digits(r, d, q, k \div 2) IN
              Digits(first.r, d, first.q, k - (k \div 2))

\* The double nearest to (n / d) * 2^e for natural numbers d <= n < 2d: 53
\* binary digits of the quotient, rounded by the rest.
Divided(n, d, e) ==
    LET qr == Digits(n, d, BigZero, 53) IN
    Nearest(qr.q, e - 52, ~BigLess(qr.r, d), qr.r # BigZero /\ qr.r # d)

\* The double nearest to (n / d) * 2^e for natural numbers n, d > 0 below
\* 2^53: n or d is scaled by a power of two until d <= n < 2d.
Quotient(n, d, e) ==
    LET by == BigBits(d) - BigBits(n)
        n1 == IF by > 0 THEN BigShiftLeft(n, by) ELSE n
        d1 == IF by < 0 THEN BigShiftLeft(d, 0 - by) ELSE d
    IN IF BigLess(n1, d1)
       THEN Divided(BigTwice(n1), d1, e - by - 1)
       ELSE Divided(n1, d1, e - by)

\* a / b of two positive ints (true division).
IntOverInt(a, b) == Quotient(Big(a), Big(b), 0)

\* k / x for an int k > 0 and a float x > 0.
IntOverFloat(k, x) == Quotient(Big(k), x.m, 0 - x.e)

\* k * x for an int 0 < k < 2^11 and a float x > 0.
IntTimesFloat(k, x) == Rounded(BigTimes(x.m, k), x.e)

\* x < y, the test with the comparison turned round.
FloatLess(x, y) == x.e < y.e \/ (x.e = y.e /\ BigLess(x.m, y.m))

\* x > y for positive floats.
FloatGreater(x, y) == x.e > y.e \/ (x.e = y.e /\ BigLess(y.m, x.m))

\* A conversion that rounds up where int() cuts off.
TruncUp(x) ==
    IF x.e >= 0 THEN BigInt(BigShiftLeft(x.m, x.e))
    ELSE BigInt(BigShiftRight(x.m, 0 - x.e)) + 1

\* int(x) of a positive float x below 2^31: the fraction is cut off.
Trunc(x) ==
    IF x.e >= 0 THEN BigInt(BigShiftLeft(x.m, x.e))
    ELSE BigInt(BigShiftRight(x.m, 0 - x.e))

(* ---------------------------- the resize ------------------------------- *)

\* calculate_aspect_ratio_resize(original_size, target_size) for sizes
\* <<width, height>> of positive ints.
calculate_aspect_ratio_resize(original_size, target_size) ==
    LET orig_width == original_size[1]
        orig_height == original_size[2]
        target_width == target_size[1]
        target_height == target_size[2]
        orig_aspect == IntOverInt(orig_width, orig_height)
        target_aspect == IntOverInt(target_width, target_height)
    IN IF FloatGreater(orig_aspect, target_aspect)
       THEN <<target_width, Trunc(IntOverFloat(target_width, orig_aspect))>>
       ELSE <<Trunc(IntTimesFloat(target_height, orig_aspect)), target_height>>

(* ------------------------ session directories -------------------------- *)

\* UPLOAD_DIR and CONVERSION_DIR, in the order in which a sweep visits them.
UPLOAD_DIR == "uploads"
CONVERSION_DIR == ConvDir
Bases == <<UPLOAD_DIR, CONVERSION_DIR>>

\* Seconds after which a session directory is stale.
SESSION_MAX_AGE == 3600

\* Seconds the cleanup thread sleeps between two sweeps.
interval == 300

\* The time at which the application starts.
Clock0 == SESSION_MAX_AGE + 1

\* Session ids, and a top-level entry that is not a session directory.
SessionIds == 1..MaxSessions
Junk == 0
Names == {Junk} \cup SessionIds

\* What the operating system does to an entry: nothing special, stat() on
\* it raises PermissionError (it cannot be reached), it cannot be written
\* (nothing in it can be created, deleted or renamed), or it holds a file
\* that cannot be deleted.
Faults == {"none", "stat", "delete", "partial"}

\* Names of the files requests put into a session directory: an upload
\* (dest = upload_dir / safe_name), and the output of a conversion with the
\* temporary file of its selection.
UploadNames == {"a.png"}
ConversionNames == {"a.webp", temp_path(Path(ConvDir, "a.webp")).name}

\* The name of a file that cannot be deleted (fault "partial").
Stuck == "stuck"

\* A top-level entry of a base directory: absent, a directory with a
\* last-modified time and the names of its files, or a regular file.
NoEntry == [kind |-> "absent", mtime |-> 0, files |-> {}, fault |-> "none"]
Directory(t, n, f) == [kind |-> "dir", mtime |-> t, files |-> n, fault |-> f]
RegularFile == [kind |-> "file", mtime |-> 0, files |-> {}, fault |-> "none"]

\* p = UPLOAD_DIR / session_id, p = CONVERSION_DIR / session_id
SessionPath(b, session_id) == Path(Bases[b], session_id)

\* What last holds before any call of session_upload_dir or
\* session_conversion_dir.
NoCall == [base |-> 0, session_id |-> 0, ret |-> Path("", 0),
           raised |-> FALSE, pc |-> "idle"]

(* p.mkdir(parents=True, exist_ok=True) is two system calls (pathlib):     *)
(*     try: os.mkdir(self, mode)                                           *)
(*     except OSError: if not exist_ok or not self.is_dir(): raise         *)
(* and another thread can run between them.  The bases exist, so the       *)
(* branch that creates missing parents is never taken.                     *)

\* os.mkdir(p) at time t: creates the directory when the name is free and
\* raises FileExistsError when anything has the name.
OsMkdir(e, t) ==
    IF e.kind = "absent"
    THEN [entry |-> Directory(t, {}, "none"), raised |-> FALSE]
    ELSE [entry |-> e, raised |-> TRUE]

\* "not self.is_dir()" after os.mkdir raised, on the entry as it is by then:
\* is_dir() calls stat(), whose PermissionError leaves mkdir; for an entry
\* that is no directory, or is no longer there, the error of os.mkdir is
\* raised again.  TRUE when an exception leaves p.mkdir.
MkdirRaises(e) == e.kind # "dir" \/ e.fault = "stat"

\* age > interval: the sleep interval taken for the maximal age.
OlderThanInterval(t, mtime) == t - mtime > interval

\* age = now - folder.stat().st_mtime; age > SESSION_MAX_AGE
Older(t, mtime) == t - mtime > SESSION_MAX_AGE

(* shutil.rmtree(folder, ignore_errors=True) is a sequence of system     *)
(* calls: os.scandir lists the entries of the folder, os.unlink is called *)
(* for each listed file, then os.rmdir for the folder; every error goes   *)
(* to an onerror that does nothing.                                       *)

\* entries = list(scandir_it) on the directory e: the names in it.
Scandir(e) == e.files

\* os.unlink of the file name in the directory e at time t: the file goes,
\* which modifies the directory; it stays when nothing in e can be deleted
\* or the file cannot be, and nothing happens when no file has the name.
Unlink(e, name, t) ==
    IF e.kind = "dir" /\ name \in e.files /\ e.fault # "delete" /\ name # Stuck
    THEN [e EXCEPT !.files = @ \ {name}, !.mtime = t]
    ELSE e

\* os.rmdir of the folder: it goes when it is empty, and stays otherwise
\* (the error is ignored).
Rmdir(e) == IF e.kind = "dir" /\ e.files = {} THEN NoEntry ELSE e

(* What a request does to the files of a session directory.  Creating,    *)
(* deleting and renaming a file need a directory that can be written and  *)
(* set its modification time; writing into a file that exists does not.   *)

\* Whether files can be created, deleted and renamed in the directory e:
\* not in one that cannot be reached or cannot be written.
Writable(e) == e.kind = "dir" /\ e.fault \in {"none", "partial"}

\* open(name, "wb") in e at time t: the file is created when it is new.
Create(e, name, t) ==
    IF Writable(e) /\ name \notin e.files
    THEN [e EXCEPT !.files = @ \cup {name}, !.mtime = t]
    ELSE e

\* old.rename(new) in e at time t: the file takes the new name, replacing
\* what had it; FileNotFoundError when nothing has the old name.
Rename(e, old, new, t) ==
    IF Writable(e) /\ old \in e.files
    THEN [e EXCEPT !.files = (@ \ {old}) \cup {new}, !.mtime = t]
    ELSE e

(* ----------------------- file names and paths -------------------------- *)

(* A file name is the sequence of its characters.                          *)

\* Code points of the characters, by which Python compares strings.
Ord == "." :> 46 @@ "a" :> 97 @@ "b" :> 98 @@ "e" :> 101 @@ "g" :> 103 @@
       "j" :> 106 @@ "n" :> 110 @@ "p" :> 112 @@ "w" :> 119

\* a < b on Python strings.
RECURSIVE StrLess(_, _)
StrLess(a, b) ==
    IF b = <<>> THEN FALSE
    ELSE IF a = <<>> THEN TRUE
    ELSE IF Head(a) # Head(b) THEN Ord[Head(a)] < Ord[Head(b)]
    ELSE StrLess(Tail(a), Tail(b))

\* sorted(upload_dir.iterdir()): the entries of one directory, by name.
RECURSIVE Sorted(_)
Sorted(S) ==
    IF S = {} THEN <<>>
    ELSE LET least == CHOOSE x \in S : \A y \in S \ {x} : StrLess(x, y)
         IN <<least>> \o Sorted(S \ {least})

\* name.rfind('.'), counting positions from 1; 0 when there is no '.'.
RFind(name, c) ==
    LET at == {k \in DOMAIN name : name[k] = c} IN
    IF at = {} THEN 0 ELSE CHOOSE k \in at : \A j \in at : j <= k

\* PurePath.stem: the name up to its last '.', unless that '.' is the first
\* or the last character.
stem(name) ==
    LET k == RFind(name, ".") IN
    IF 1 < k /\ k < Len(name) THEN SubSeq(name, 1, k - 1) ELSE name

\* PurePath.suffix: the name from its last '.' on, under the same condition.
suffix(name) ==
    LET k == RFind(name, ".") IN
    IF 1 < k /\ k < Len(name) THEN SubSeq(name, k, Len(name)) ELSE <<>>

\* Some of ImageConverter.supported_input_extensions(): ".png", ".jpg".
InputExtensions == {<<".", "p", "n", "g">>, <<".", "j", "p", "g">>}

\* _allowed_input(filename); the names here are in lower case.
allowed_input(filename) == suffix(filename) \in InputExtensions

\* Names a client gives its files: a.png, a.jpg, b.png, b.jpg, a.b.png,
\* a.a.png, and the names b and .png, which have no suffix.
ClientNames ==
    {<<"a", ".", "p", "n", "g">>, <<"a", ".", "j", "p", "g">>,
     <<"b", ".", "p", "n", "g">>, <<"b", ".", "j", "p", "g">>,
     <<"a", ".", "b", ".", "p", "n", "g">>,
     <<"a", ".", "a", ".", "p", "n", "g">>,
     <<"b">>, <<".", "p", "n", "g">>}

\* Some of ImageConverter.supported_output_formats(): webp, png, jpeg.
OutputFormats ==
    {<<"w", "e", "b", "p">>, <<"p", "n", "g">>, <<"j", "p", "e", "g">>}

\* out_name = fpath.stem + '.' + output_format
out_name(name, fmt) == stem(name) \o <<".">> \o fmt

\* for fpath in sorted(upload_dir.iterdir()): ...
\*     file_pairs.append((fpath, conv_dir / out_name))
FilePairsOf(files, fmt) ==
    LET names == Sorted(files) IN
    [k \in DOMAIN names |->
        <<Path(UPLOAD_DIR, names[k]), Path(CONVERSION_DIR, out_name(names[k], fmt))>>]

(* ------------------------------- state --------------------------------- *)

VARIABLES
    file_pairs,   \* the argument of convert_batch
    method,       \* self.method
    max_workers,  \* self.max_workers
    fs0,          \* the filesystem when convert_batch is called
    fs,           \* the filesystem: path -> file
    loc,          \* per submitted pair: the local state of its _convert call
    results,      \* the list "results" of convert_batch
    lock,         \* self._lock: 0 when free, else the task holding it
    submitted,    \* how many pairs executor.submit has taken
    mainpc,       \* where the caller's thread is in convert_batch
    waiting,      \* the future whose result() the caller waits for
    exc,          \* whether an exception is propagating in the caller
    conv_dir,     \* the directory output_path.parent of the outputs
    swept,        \* whether shutil.rmtree has returned from it since the call
    original_size, \* calculate_aspect_ratio_resize: the argument original_size
    target_size,   \* calculate_aspect_ratio_resize: the argument target_size
    new_size,      \* calculate_aspect_ratio_resize: the tuple returned
    clock,        \* time.time()
    tree,         \* the entries of UPLOAD_DIR and CONVERSION_DIR
    tree0,        \* the entries when the sweep under way (or the last) began
    spc,          \* where the cleanup thread is
    now,          \* cleanup_old_sessions: the local "now"
    base,         \* cleanup_old_sessions: index of "base" in Bases
    pending,      \* cleanup_old_sessions: entries base.iterdir() still yields
    folder,       \* cleanup_old_sessions: the local "folder"
    entries,      \* rmtree: what os.scandir listed and is still to unlink
    wake,         \* when time.sleep(interval) of the cleanup thread ends
    last,         \* the last call of session_upload_dir/session_conversion_dir
    requests,     \* how many requests have been served
    upload_files, \* convert: the names of the files in upload_dir
    output_format, \* convert: the local "output_format"
    handler       \* convert: where the handler is, and its list file_pairs

\* The variables of a call of convert_batch.
batchVars == <<file_pairs, method, max_workers, fs0, fs, loc, results, lock,
               submitted, mainpc, waiting, exc, conv_dir, swept>>

\* The variables of a call of calculate_aspect_ratio_resize.
resizeVars == <<original_size, target_size, new_size>>

\* The variables of the session directories and of the cleanup thread.
webVars == <<clock, tree, tree0, spc, now, base, pending, folder, entries,
             wake, last, requests>>

\* What convert_batch (run without resizing) leaves alone.
\* The variables of a convert request.
convertVars == <<upload_files, output_format, handler>>

notBatch == <<resizeVars, webVars, convertVars>>

vars == <<batchVars, resizeVars, webVars, convertVars>>

N == Len(file_pairs)
Tasks == 1..N

\* Filesystems a call may find: the conversions directory is empty, or it
\* holds the outputs an earlier conversion of the same pairs left.
InitialFilesystems(fp) ==
    {[p \in FsPaths |-> IF p \in S THEN StaleFile ELSE NoFile] :
        S \in {{}, {fp[i].output : i \in DOMAIN fp} \cap FsPaths}}

\* No call of calculate_aspect_ratio_resize is under way.
NoResize ==
    /\ original_size = <<>>
    /\ target_size = <<>>
    /\ new_size = <<>>

\* The web application is not running: no session directory, no cleanup
\* thread, no request.
NoWeb ==
    /\ clock = 0
    /\ tree = <<>>
    /\ tree0 = <<>>
    /\ spc = "off"
    /\ now = 0
    /\ base = 1
    /\ pending = {}
    /\ folder = Junk
    /\ entries = {}
    /\ wake = 0
    /\ last = NoCall
    /\ requests = 0

\* convert_batch is called by a request of the web application while the
\* cleanup thread, in a sweep begun at Clock0, has come to the directory of
\* the outputs and is about to look at its age.
\* (Batches run beside the cleanup thread are those of one pair and those of
\* one worker.)
SweepUnderWay ==
    /\ clock = Clock0
    /\ tree = <<>>
    /\ tree0 = <<>>
    /\ spc = "stat"
    /\ now = Clock0
    /\ base = 2
    /\ pending = {}
    /\ folder = Junk
    /\ entries = {}
    /\ wake = 0
    /\ last = NoCall
    /\ requests = 0

\* No convert request is being handled.
NoConvert ==
    /\ upload_files = {}
    /\ output_format = <<>>
    /\ handler = [pc |-> "idle", file_pairs |-> <<>>]

\* The directory of the outputs at time t, as earlier conversions of the
\* session left it: written more than SESSION_MAX_AGE ago, or just within
\* SESSION_MAX_AGE (at time 0 it has just been made).
OutputDirs(t) ==
    IF t > SESSION_MAX_AGE
    THEN {OutputDir(0), OutputDir(t - SESSION_MAX_AGE)}
    ELSE {OutputDir(0)}

Init ==
    /\ \E n \in 0..MaxTasks : file_pairs \in FilePairLists(n)
    /\ method \in MethodValues
    /\ max_workers \in 0..MaxTasks
    /\ fs0 \in InitialFilesystems(file_pairs)
    /\ fs = fs0
    /\ loc = [i \in DOMAIN file_pairs |-> InitLocal(i, file_pairs[i])]
    /\ results = <<>>
    /\ lock = 0
    /\ submitted = 0
    /\ mainpc = "pool"
    /\ waiting = 1
    /\ exc = FALSE
    /\ swept = FALSE
    /\ NoResize
    /\ \/ NoWeb
       \/ SweepUnderWay /\ (N <= 1 \/ max_workers <= 1)
    /\ conv_dir \in OutputDirs(clock)
    /\ NoConvert

(* --------------------------- the worker pool --------------------------- *)

\* A future taken for settled as soon as a worker has picked it up.
SettledEarly(l) == l.pc # "queued"

\* A future is settled when its call has returned or raised.
Settled(l) == l.pc \in {"done", "raised"}

\* with ThreadPoolExecutor(max_workers=self.max_workers) as executor: the
\* constructor raises ValueError for max_workers <= 0 (concurrent.futures);
\* otherwise the list comprehension over file_pairs begins, and with no pair
\* to submit and no future to wait for the with block is left at once.
CreatePool ==
    /\ mainpc = "pool"
    /\ IF max_workers <= 0
       THEN mainpc' = "raised" /\ exc' = TRUE
       ELSE /\ mainpc' = IF N = 0 THEN "shutdown" ELSE "submit"
            /\ UNCHANGED exc
    /\ UNCHANGED <<file_pairs, method, max_workers, fs0, fs, loc, results, lock,
                   submitted, waiting>>
    /\ UNCHANGED <<conv_dir, swept, notBatch>>

\* futures = [executor.submit(_convert, pair) for pair in file_pairs]
Submit ==
    /\ mainpc = "submit"
    /\ submitted' = submitted + 1
    /\ mainpc' = IF submitted + 1 = N THEN "result" ELSE "submit"
    /\ UNCHANGED <<file_pairs, method, max_workers, fs0, fs, loc, results, lock,
                   waiting, exc>>
    /\ UNCHANGED <<conv_dir, swept, notBatch>>

\* The calls the workers have taken from the queue once call i is taken:
\* the queue of the pool is first in, first out, so they are the calls up
\* to i and up to the last call that has begun.
Taken(i) ==
    {j \in Tasks : j <= i \/ \E k \in Tasks : j <= k /\ loc[k].pc # "queued"}

\* A worker thread has taken call i (every worker takes the oldest queued
\* call, and a worker runs one call at a time) and begins convert_single:
\* os.mkdir of output_path.parent.mkdir(parents=True, exist_ok=True).  When
\* the directory exists os.mkdir raises and mkdir goes on with is_dir();
\* when os.mkdir makes it, or raises because it cannot be made, the call
\* goes on to its first access of the output files.  A worker that has
\* taken a call may begin it after the worker of a later call.
Start(i) ==
    /\ i <= submitted
    /\ loc[i].pc = "queued"
    /\ Cardinality({j \in Taken(i) : ~Settled(loc[j])}) <= max_workers
    /\ IF file_pairs[i].output.dir # BadDir /\ conv_dir.kind = "dir"
       THEN /\ loc' = [loc EXCEPT ![i].pc = "is_dir"]
            /\ UNCHANGED conv_dir
       ELSE /\ loc' = [loc EXCEPT ![i] = Begin(method, file_pairs[i], loc[i])]
            /\ conv_dir' = IF file_pairs[i].output.dir = BadDir
                           THEN conv_dir
                           ELSE OutputDir(clock)
    /\ UNCHANGED <<file_pairs, method, max_workers, fs0, fs, results, lock,
                   submitted, mainpc, waiting, exc>>
    /\ UNCHANGED <<swept, notBatch>>

\* "if not exist_ok or not self.is_dir(): raise" of that mkdir: the error
\* of os.mkdir leaves convert_single when the directory is no longer there;
\* otherwise the call goes on to its first access of the output files.
ParentIsDir(i) ==
    /\ loc[i].pc = "is_dir"
    /\ loc' = [loc EXCEPT ![i] = IF conv_dir.kind = "dir"
                                 THEN Decode(method, file_pairs[i], loc[i])
                                 ELSE [loc[i] EXCEPT !.pc = "raised"]]
    /\ UNCHANGED <<file_pairs, method, max_workers, fs0, fs, results, lock,
                   submitted, mainpc, waiting, exc>>
    /\ UNCHANGED <<conv_dir, swept, notBatch>>

\* r = self.convert_single(pair[0], pair[1]): the step of it at place pc.
Convert(i, pc) ==
    /\ loc[i].pc = pc
    /\ LET r == TaskStepIn(conv_dir, i, method, file_pairs[i], loc[i], fs) IN
         /\ loc' = [loc EXCEPT ![i] = r.l]
         /\ fs' = r.f
         /\ conv_dir' = Modified(conv_dir, fs, r.f, clock)
    /\ UNCHANGED <<file_pairs, method, max_workers, fs0, results, lock,
                   submitted, mainpc, waiting, exc>>
    /\ UNCHANGED <<swept, notBatch>>

\* The steps of _try_both_webp.
NewTemp(i) == Convert(i, "a_new")
SaveTemp(i) == Convert(i, "a_open")
EncodeTemp(i) == Convert(i, "a_write")
SizeOfTemp(i) == Convert(i, "a_stat")
OutputExists(i) == Convert(i, "a_exists")
UnlinkOutput(i) == Convert(i, "a_unlink")
RenameTemp(i) == Convert(i, "a_rename")
DiscardTemp(i) == Convert(i, "a_discard")
HandlerExists(i) == Convert(i, "x_exists")
HandlerUnlink(i) == Convert(i, "x_unlink")

\* The steps of the fixed branch and of the end of convert_single.
NewOutput(i) == Convert(i, "f_new")
SaveOutput(i) == Convert(i, "f_open")
EncodeOutput(i) == Convert(i, "f_write")
SizeOfOutput(i) == Convert(i, "stat_out")

\* A lock that does not keep a second thread out.
NeverHeld(l) == TRUE

\* self._lock can be acquired: no thread holds it.
Free(l) == l = 0

\* with self._lock:
Acquire(i) ==
    /\ loc[i].pc = "append"
    /\ Free(lock)
    /\ lock' = i
    /\ loc' = [loc EXCEPT ![i].pc = "locked"]
    /\ UNCHANGED <<file_pairs, method, max_workers, fs0, fs, results,
                   submitted, mainpc, waiting, exc>>
    /\ UNCHANGED <<conv_dir, swept, notBatch>>

\* A list that only keeps the outcome appended last.
AppendedLast(res, r) == <<r>>

\* results.append(r)
Appended(res, r) == Append(res, r)

\* results.append(r) and leaving the with block, which releases the lock.
AppendResult(i) ==
    /\ loc[i].pc = "locked"
    /\ results' = Appended(results, loc[i].result)
    /\ lock' = 0
    /\ loc' = [loc EXCEPT ![i].pc = "return"]
    /\ UNCHANGED <<file_pairs, method, max_workers, fs0, fs,
                   submitted, mainpc, waiting, exc>>
    /\ UNCHANGED <<conv_dir, swept, notBatch>>

\* return r: _convert returns and the pool settles the future of the call.
Return(i) ==
    /\ loc[i].pc = "return"
    /\ loc' = [loc EXCEPT ![i].pc = "done"]
    /\ UNCHANGED <<file_pairs, method, max_workers, fs0, fs, results, lock,
                   submitted, mainpc, waiting, exc>>
    /\ UNCHANGED <<conv_dir, swept, notBatch>>

\* for f in futures: f.result() -- blocks until the future is settled and
\* re-raises the exception of a call that raised.
Result ==
    /\ mainpc = "result"
    /\ Settled(loc[waiting])
    /\ IF loc[waiting].pc = "raised"
       THEN /\ exc' = TRUE
            /\ mainpc' = "shutdown"
            /\ UNCHANGED waiting
       ELSE /\ UNCHANGED exc
            /\ IF waiting = N
               THEN mainpc' = "shutdown" /\ UNCHANGED waiting
               ELSE mainpc' = "result" /\ waiting' = waiting + 1
    /\ UNCHANGED <<file_pairs, method, max_workers, fs0, fs, loc, results, lock,
                   submitted>>
    /\ UNCHANGED <<conv_dir, swept, notBatch>>

\* Leaving "with ThreadPoolExecutor(...)": shutdown(wait=True) joins the
\* workers, then convert_batch returns results or the exception goes on.
Shutdown ==
    /\ mainpc = "shutdown"
    /\ \A i \in Tasks : Settled(loc[i])
    /\ mainpc' = IF exc THEN "raised" ELSE "returned"
    /\ UNCHANGED <<file_pairs, method, max_workers, fs0, fs, loc, results, lock,
                   submitted, waiting, exc>>
    /\ UNCHANGED <<conv_dir, swept, notBatch>>

\* The cleanup thread in cleanup_old_sessions, at the directory of the
\* outputs: age = now - folder.stat().st_mtime; if age > SESSION_MAX_AGE.
\* (stat() of a directory that is gone raises, and "except Exception: pass"
\* takes it.)  The model follows the thread until convert_batch has ended.
StatConvDir ==
    /\ spc = "stat"
    /\ mainpc \notin {"returned", "raised"}
    /\ spc' = IF conv_dir.kind = "dir" /\ Older(now, conv_dir.mtime)
              THEN "rmtree"
              ELSE "sleep"
    /\ UNCHANGED <<clock, tree, tree0, now, base, pending, folder, entries,
                   wake, last, requests>>
    /\ UNCHANGED <<batchVars, resizeVars, convertVars>>

\* shutil.rmtree(folder, ignore_errors=True) on the directory of the
\* outputs begins: it opens the directory, and os.scandir lists the files
\* that are in it now.
RemoveConvDir ==
    /\ spc = "rmtree"
    /\ mainpc \notin {"returned", "raised"}
    /\ spc' = "unlink"
    /\ entries' = {p \in FsPaths : Exists(fs, p)}
    /\ UNCHANGED <<clock, tree, tree0, now, base, pending, folder, wake, last, requests>>
    /\ UNCHANGED <<batchVars, resizeVars, convertVars>>

\* for entry in entries: os.unlink(entry.name, dir_fd=topfd).  The entries
\* come in the order of os.scandir, which is arbitrary.  What has the name
\* now goes, a file a worker has open for writing included (the worker goes
\* on writing to a file without a name); when nothing has the name any
\* more the error is ignored.
UnlinkEntry(p) ==
    /\ spc = "unlink"
    /\ mainpc \notin {"returned", "raised"}
    /\ p \in entries
    /\ entries' = entries \ {p}
    /\ fs' = [fs EXCEPT ![p] = NoFile]
    /\ conv_dir' = Modified(conv_dir, fs, fs', clock)
    /\ UNCHANGED <<file_pairs, method, max_workers, fs0, loc, results, lock,
                   submitted, mainpc, waiting, exc, swept>>
    /\ UNCHANGED <<clock, tree, tree0, spc, now, base, pending, folder, wake, last, requests>>
    /\ UNCHANGED <<resizeVars, convertVars>>

\* os.rmdir(path) after the last entry: the directory goes when no file is
\* in it; when a worker has made a file meanwhile it stays, and the error
\* is ignored.  rmtree returns and the thread is past the directory.
RmdirConvDir ==
    /\ spc = "unlink"
    /\ mainpc \notin {"returned", "raised"}
    /\ entries = {}
    /\ spc' = "sleep"
    /\ conv_dir' = IF \E p \in FsPaths : Exists(fs, p) THEN conv_dir ELSE NoDir
    /\ swept' = TRUE
    /\ UNCHANGED <<file_pairs, method, max_workers, fs0, fs, loc, results, lock,
                   submitted, mainpc, waiting, exc>>
    /\ UNCHANGED <<clock, tree, tree0, now, base, pending, folder, entries,
                   wake, last, requests>>
    /\ UNCHANGED <<resizeVars, convertVars>>

Next ==
    \/ CreatePool
    \/ Submit
    \/ \E i \in Tasks : Start(i)
    \/ \E i \in Tasks : ParentIsDir(i)
    \/ \E i \in Tasks : NewTemp(i)
    \/ \E i \in Tasks : SaveTemp(i)
    \/ \E i \in Tasks : EncodeTemp(i)
    \/ \E i \in Tasks : SizeOfTemp(i)
    \/ \E i \in Tasks : OutputExists(i)
    \/ \E i \in Tasks : UnlinkOutput(i)
    \/ \E i \in Tasks : RenameTemp(i)
    \/ \E i \in Tasks : DiscardTemp(i)
    \/ \E i \in Tasks : HandlerExists(i)
    \/ \E i \in Tasks : HandlerUnlink(i)
    \/ \E i \in Tasks : NewOutput(i)
    \/ \E i \in Tasks : SaveOutput(i)
    \/ \E i \in Tasks : EncodeOutput(i)
    \/ \E i \in Tasks : SizeOfOutput(i)
    \/ \E i \in Tasks : Acquire(i)
    \/ \E i \in Tasks : AppendResult(i)
    \/ \E i \in Tasks : Return(i)
    \/ Result
    \/ Shutdown
    \/ StatConvDir
    \/ RemoveConvDir
    \/ \E p \in FsPaths : UnlinkEntry(p)
    \/ RmdirConvDir

Spec == Init /\ [][Next]_vars

(* ---------------- calculate_aspect_ratio_resize on its own ------------- *)

\* Widths and heights, and sizes (width, height).
Dims == 1..MaxDim
Sizes == Dims \X Dims

\* The documented calls: 800x600 and 300x600 into the default target box.
Examples == {<<<<800, 600>>, <<512, 512>>>>, <<<<300, 600>>, <<512, 512>>>>}

\* No batch is under way.
NoBatch ==
    /\ file_pairs = <<>>
    /\ method = "auto"
    /\ max_workers = 1
    /\ fs0 = [p \in FsPaths |-> NoFile]
    /\ fs = fs0
    /\ loc = <<>>
    /\ results = <<>>
    /\ lock = 0
    /\ submitted = 0
    /\ mainpc = "idle"
    /\ waiting = 1
    /\ exc = FALSE
    /\ conv_dir = NoDir
    /\ swept = FALSE

\* A call with any original size and target size, before it has returned.
InitResize ==
    /\ \E call \in (Sizes \X Sizes) \cup Examples :
          /\ original_size = call[1]
          /\ target_size = call[2]
    /\ new_size = <<>>
    /\ NoBatch
    /\ NoWeb
    /\ NoConvert

\* return (new_width, new_height)
Resize ==
    /\ new_size = <<>>
    /\ new_size' = calculate_aspect_ratio_resize(original_size, target_size)
    /\ UNCHANGED <<original_size, target_size>>
    /\ UNCHANGED <<batchVars, webVars, convertVars>>

NextResize == Resize

SpecResize == InitResize /\ [][NextResize]_vars

(* ------------------- the session store and its cleanup ----------------- *)

\* The files an earlier upload or conversion left in a directory of base b.
Left(b) == IF b = 1 THEN UploadNames ELSE {"a.webp"}

\* Directories earlier runs left in base b: one modified more than
\* SESSION_MAX_AGE ago (with the fault f; with a file that cannot be
\* deleted when the fault is "partial"), and one that reaches that age
\* before the next sweep.
StaleDir(b, f) ==
    Directory(0, IF f = "partial" THEN Left(b) \cup {Stuck} ELSE Left(b), f)
YoungDir(b) == Directory(Clock0 - (SESSION_MAX_AGE - interval), Left(b), "none")

InitialEntries(b) == {NoEntry, YoungDir(b)} \cup {StaleDir(b, f) : f \in Faults}

\* The directories the first session id has when create_app runs: one, both
\* or none, at most one of them with a fault.
InitialSessions ==
    {x \in [DOMAIN Bases -> UNION {InitialEntries(b) : b \in DOMAIN Bases}] :
        /\ \A b \in DOMAIN Bases : x[b] \in InitialEntries(b)
        /\ Cardinality({b \in DOMAIN Bases : x[b].fault # "none"}) <= 1}

\* What create_app finds: uploads holds a regular file, and the first
\* session id has directories earlier runs left; every other session id is
\* that of an upload yet to come (uuid.uuid4().hex).
InitialTrees ==
    {[b \in DOMAIN Bases |->
         [n \in Names |->
             IF n = Junk THEN (IF b = 1 THEN RegularFile ELSE NoEntry)
             ELSE IF n = 1 THEN x[b]
             ELSE NoEntry]] : x \in InitialSessions}

\* create_app has run: ensure_dirs() made the two bases and
\* start_cleanup_thread() started the thread, which begins with a sweep.
InitWeb ==
    /\ clock = Clock0
    /\ tree \in InitialTrees
    /\ tree0 = tree
    /\ spc = "cleanup"
    /\ now = 0
    /\ base = 1
    /\ pending = {}
    /\ folder = Junk
    /\ entries = {}
    /\ wake = 0
    /\ last = NoCall
    /\ requests = 0
    /\ NoBatch
    /\ NoResize
    /\ NoConvert

\* What the cleanup thread leaves alone, and what a request leaves alone.
sweepLocals == <<spc, now, base, pending, folder, entries, wake, tree0>>
notWeb == <<batchVars, resizeVars, convertVars>>

\* Time passes while the cleanup thread sleeps (or after it has ended):
\* time.sleep(interval) returns no sooner than interval seconds later, and
\* the statements around it take time too, so that two readings of
\* time.time() by successive sweeps differ by more than interval.  A sweep
\* itself takes less than a second.
Tick ==
    /\ spc \in {"sleep", "dead"}
    /\ clock < Clock0 + MaxTicks * (interval + 1)
    /\ clock' = clock + interval + 1
    /\ UNCHANGED <<tree, last, requests, sweepLocals, notWeb>>

\* The call p = Bases[b] / session_id; p.mkdir(...) up to and with its
\* os.mkdir, as it is recorded in last: the call has returned p when
\* os.mkdir made the directory, and goes on with is_dir() when it raised.
SessionDirCall(b, session_id) ==
    [base |-> b, session_id |-> session_id,
     ret |-> SessionPath(b, session_id),
     raised |-> FALSE,
     pc |-> IF OsMkdir(tree[b][session_id], clock).raised
            THEN "is_dir" ELSE "returned"]

\* The entries after that os.mkdir.
SessionDirTree(b, session_id) ==
    [tree EXCEPT ![b][session_id] = OsMkdir(@, clock).entry]

\* A request calls session_upload_dir(session_id).
session_upload_dir(session_id) ==
    /\ requests < MaxRequests
    /\ last.pc # "is_dir"
    /\ requests' = requests + 1
    /\ tree' = SessionDirTree(1, session_id)
    /\ last' = SessionDirCall(1, session_id)
    /\ UNCHANGED <<clock, sweepLocals, notWeb>>

\* A request calls session_conversion_dir(session_id).
session_conversion_dir(session_id) ==
    /\ requests < MaxRequests
    /\ last.pc # "is_dir"
    /\ requests' = requests + 1
    /\ tree' = SessionDirTree(2, session_id)
    /\ last' = SessionDirCall(2, session_id)
    /\ UNCHANGED <<clock, sweepLocals, notWeb>>

\* The call goes on after os.mkdir raised: p.mkdir ends with is_dir(), and
\* the call returns p or the exception leaves it.
MkdirIsDir ==
    /\ last.pc = "is_dir"
    /\ last' = [last EXCEPT !.pc = "returned",
                            !.raised = MkdirRaises(tree[last.base][last.session_id])]
    /\ UNCHANGED <<clock, tree, requests, sweepLocals, notWeb>>

\* A request writes a file into a session directory: f.save(dest) of
\* upload; img.save(temp_path) and processed.save(output_path) of a
\* conversion.  A file under a name that is new in the directory modifies
\* the directory; writing over the file that has the name does not.
SaveFile(b, session_id, name) ==
    /\ requests < MaxRequests
    /\ tree[b][session_id].kind = "dir"
    /\ name \in tree[b][session_id].files \/ Writable(tree[b][session_id])
    /\ requests' = requests + 1
    /\ tree' = [tree EXCEPT ![b][session_id] = Create(@, name, clock)]
    /\ UNCHANGED <<clock, last, sweepLocals, notWeb>>

\* A conversion deletes a file of its session directory:
\* output_path.unlink() before the rename, temp_path.unlink() of a
\* candidate that is not kept, os.remove of a save that failed.
DeleteFile(session_id, name) ==
    /\ requests < MaxRequests
    /\ Writable(tree[2][session_id])
    /\ name \in tree[2][session_id].files
    /\ requests' = requests + 1
    /\ tree' = [tree EXCEPT ![2][session_id] = Unlink(@, name, clock)]
    /\ UNCHANGED <<clock, last, sweepLocals, notWeb>>

\* A conversion keeps a candidate: temp_path.rename(output_path).
RenameFile(session_id) ==
    /\ requests < MaxRequests
    /\ Writable(tree[2][session_id])
    /\ temp_path(Path(ConvDir, "a.webp")).name \in tree[2][session_id].files
    /\ requests' = requests + 1
    /\ tree' = [tree EXCEPT ![2][session_id] =
                    Rename(@, temp_path(Path(ConvDir, "a.webp")).name,
                           "a.webp", clock)]
    /\ UNCHANGED <<clock, last, sweepLocals, notWeb>>

\* cleanup_old_sessions(): now = time.time()
ReadClock ==
    /\ spc = "cleanup"
    /\ now' = clock
    /\ tree0' = tree
    /\ base' = 1
    /\ spc' = "base"
    /\ UNCHANGED <<clock, tree, pending, folder, entries, wake, last,
                   requests, notWeb>>

\* for base in (UPLOAD_DIR, CONVERSION_DIR): base.iterdir() lists the
\* entries of base (ensure_dirs made both bases, so base.exists() holds);
\* after the last base cleanup_old_sessions returns and _loop calls
\* time.sleep(interval).
ListBase ==
    /\ spc = "base"
    /\ IF base > Len(Bases)
       THEN /\ spc' = "sleep"
            /\ wake' = clock + interval
            /\ UNCHANGED pending
       ELSE /\ spc' = "folder"
            /\ pending' = {n \in Names : tree[base][n].kind # "absent"}
            /\ UNCHANGED wake
    /\ UNCHANGED <<clock, tree, tree0, now, base, folder, entries, last, requests, notWeb>>

\* for folder in base.iterdir(): if not folder.is_dir(): continue.  The
\* entries come in the order of os.listdir, which is arbitrary.  is_dir()
\* calls stat(), and lets every error but "no such entry" out; nothing
\* catches it, neither in cleanup_old_sessions nor in _loop, so it ends
\* the thread.
IsDir ==
    /\ spc = "folder"
    /\ IF pending = {}
       THEN /\ base' = base + 1
            /\ spc' = "base"
            /\ UNCHANGED <<pending, folder>>
       ELSE \E n \in pending :
               /\ folder' = n
               /\ pending' = pending \ {n}
               /\ UNCHANGED base
               /\ spc' = IF tree[base][n].fault = "stat" THEN "dead"
                         ELSE IF tree[base][n].kind = "dir" THEN "stat"
                         ELSE "folder"
    /\ UNCHANGED <<clock, tree, tree0, now, entries, wake, last,
                   requests, notWeb>>

\* try: age = now - folder.stat().st_mtime; if age > SESSION_MAX_AGE: ...
\* except Exception: pass
StatFolder ==
    /\ spc = "stat"
    /\ LET e == tree[base][folder] IN
          spc' = IF e.kind = "dir" /\ e.fault # "stat" /\ Older(now, e.mtime)
                 THEN "rmtree"
                 ELSE "folder"
    /\ UNCHANGED <<clock, tree, tree0, now, base, pending, folder, entries,
                   wake, last, requests, notWeb>>

\* shutil.rmtree(folder, ignore_errors=True) begins: it opens the folder,
\* and os.scandir lists the names that are in it now (nothing when the
\* folder is no longer there).
RemoveFolder ==
    /\ spc = "rmtree"
    /\ entries' = Scandir(tree[base][folder])
    /\ spc' = "unlink"
    /\ UNCHANGED <<clock, tree, tree0, now, base, pending, folder,
                   wake, last, requests, notWeb>>

\* for entry in entries: os.unlink(entry.name, dir_fd=topfd), in the
\* arbitrary order of os.scandir: the file that has the name now goes, if
\* it can be deleted; every error is ignored.
UnlinkFile(name) ==
    /\ spc = "unlink"
    /\ name \in entries
    /\ entries' = entries \ {name}
    /\ tree' = [tree EXCEPT ![base][folder] = Unlink(@, name, clock)]
    /\ UNCHANGED <<clock, tree0, spc, now, base, pending, folder,
                   wake, last, requests, notWeb>>

\* os.rmdir(path) after the last entry, and the return of rmtree.
RmdirFolder ==
    /\ spc = "unlink"
    /\ entries = {}
    /\ tree' = [tree EXCEPT ![base][folder] = Rmdir(@)]
    /\ spc' = "folder"
    /\ UNCHANGED <<clock, tree0, now, base, pending, folder, entries,
                   wake, last, requests, notWeb>>

\* time.sleep(interval) returns, and the loop calls cleanup_old_sessions().
Wake ==
    /\ spc = "sleep"
    /\ clock >= wake
    /\ spc' = "cleanup"
    /\ UNCHANGED <<clock, tree, tree0, now, base, pending, folder, entries,
                   wake, last, requests, notWeb>>

NextWeb ==
    \/ Tick
    \/ \E session_id \in SessionIds : session_upload_dir(session_id)
    \/ \E session_id \in SessionIds : session_conversion_dir(session_id)
    \/ MkdirIsDir
    \/ \E b \in DOMAIN Bases : \E session_id \in SessionIds :
          \E name \in (IF b = 1 THEN UploadNames ELSE ConversionNames) :
              SaveFile(b, session_id, name)
    \/ \E session_id \in SessionIds :
          \E name \in ConversionNames : DeleteFile(session_id, name)
    \/ \E session_id \in SessionIds : RenameFile(session_id)
    \/ ReadClock
    \/ ListBase
    \/ IsDir
    \/ StatFolder
    \/ RemoveFolder
    \/ \E name \in entries : UnlinkFile(name)
    \/ RmdirFolder
    \/ Wake

SpecWeb == InitWeb /\ [][NextWeb]_vars

(* ------------------- the batch of a convert request -------------------- *)

\* The upload directory of a session holds what upload() saved there: files
\* under distinct names that _allowed_input accepts.
InitConvert ==
    /\ upload_files \in {S \in SUBSET {n \in ClientNames : allowed_input(n)} :
                            Cardinality(S) <= MaxUploads}
    /\ output_format \in OutputFormats
    /\ handler = [pc |-> "request", file_pairs |-> <<>>]
    /\ NoBatch
    /\ NoResize
    /\ NoWeb

\* convert(): the list file_pairs is built from the files of upload_dir;
\* with no file the request is rejected, otherwise convert_batch gets the
\* list.
BuildFilePairs ==
    /\ handler.pc = "request"
    /\ LET file_pairs_ == FilePairsOf(upload_files, output_format) IN
          handler' = [pc |-> IF file_pairs_ = <<>> THEN "rejected" ELSE "batch",
                      file_pairs |-> file_pairs_]
    /\ UNCHANGED <<upload_files, output_format>>
    /\ UNCHANGED <<batchVars, resizeVars, webVars>>

NextConvert == BuildFilePairs

SpecConvert == InitConvert /\ [][NextConvert]_vars

(* ------------------------------ claims --------------------------------- *)

Returned == mainpc = "returned"

\* The outcomes in results that belong to pair i.
OutcomesOf(i) == {k \in 1..Len(results) : results[k].input_path = i}

\* C1: when convert_batch returns, results has exactly one entry per
\* submitted pair (N entries), however many conversions failed and in
\* whatever order the workers finished.
C1_OneOutcomePerPair ==
    Returned =>
        /\ Len(results) = Len(file_pairs)
        /\ \A i \in Tasks : Cardinality(OutcomesOf(i)) = 1

\* A returned batch of several pairs with a failed and a succeeded conversion
\* whose outcomes are not in submission order.
C1_Witness ==
    /\ Returned
    /\ N >= 2
    /\ \E k \in 1..Len(results) : ~results[k].success
    /\ \E k \in 1..Len(results) : results[k].success
    /\ results[1].input_path # 1

\* C5: convert_batch does not return before every dispatched call has
\* completed: at the return no call is still converting, waiting for the lock
\* or holding it, and every pair has its outcome in results.
C5_ReturnAfterJoin ==
    Returned =>
        /\ \A i \in Tasks : loc[i].pc = "done"
        /\ lock = 0
        /\ \A i \in Tasks : OutcomesOf(i) # {}

\* A batch of several pairs run by several workers has returned.
C5_Witness ==
    /\ Returned
    /\ N >= 2
    /\ max_workers >= 2
    /\ \E i \in Tasks : loc[i].result.success

\* The call for pair i has its outcome: it is about to append it or has.
HasOutcome(i) == loc[i].pc \in {"append", "locked", "return", "done"}

Out(i) == file_pairs[i].output
Kind(i) == file_pairs[i].input.kind
Enc(i) == file_pairs[i].input.enc

\* The paths the call for pair i may write, rename or delete.
Touched(i) == IF Out(i).dir = BadDir THEN {} ELSE {Out(i), temp_path(Out(i))}

\* The cleanup thread of the web application has not begun to remove the
\* directory of the outputs.
Undisturbed == ~swept /\ spc # "unlink"

\* Nothing but the call for pair i touches a path that call touches: no
\* other call of the batch does, and the cleanup thread does not.
Private(i) ==
    /\ \A j \in Tasks \ {i} : Touched(i) \cap Touched(j) = {}
    /\ Undisturbed

\* The candidates of pair i that encode.
Encodable(i) == {m \in {"lossless", "lossy"} : Enc(i)[m] > 0}

\* Processing pair i raises one of: missing input, decode failure, encode
\* failure (of the fixed method, or of every candidate of the auto policy).
RaisesListed(i) ==
    /\ Out(i).dir # BadDir
    /\ \/ Kind(i) \in {"missing", "corrupt"}
       \/ IF method = "auto" THEN Encodable(i) = {} ELSE Enc(i)[method] = 0

\* C2: an exception raised while processing one pair (missing input, decode
\* failure, encode failure) yields an outcome with success = false and an
\* error string; it never makes the call or convert_batch raise, and the
\* other calls of the batch still run to their end.
C2_ExceptionBecomesFailedOutcome ==
    /\ \A i \in Tasks :
          RaisesListed(i) =>
             /\ loc[i].pc # "raised"
             /\ HasOutcome(i) =>
                   /\ ~loc[i].result.success
                   /\ loc[i].result.error \notin {None, ""}
    /\ (mainpc = "raised" /\ max_workers >= 1) =>
          \E i \in Tasks : Out(i).dir = BadDir
    /\ (mainpc \in {"returned", "raised"} /\ max_workers >= 1) =>
          \A i \in Tasks : Settled(loc[i])

\* C3: in the returned results every outcome with success = true has a file
\* at its output path, and every pair whose input is missing or undecodable
\* has success = false.
C3_SuccessMeansFilePresent ==
    Returned =>
        \A k \in 1..Len(results) :
            /\ results[k].success => Exists(fs, results[k].output_path)
            /\ Kind(results[k].input_path) \in {"missing", "corrupt"}
                  => ~results[k].success

\* The outcomes as a set.
Range(seq) == {seq[k] : k \in 1..Len(seq)}

\* C4: for pairwise distinct output paths and a fixed initial filesystem
\* that nothing but the batch changes, the returned outcomes are, as a set,
\* those of the run with max_workers = 1, whatever max_workers is and
\* however the workers interleave.
C4_SameOutcomesAsOneWorker ==
    (Returned /\ Undisturbed) =>
        Range(results) = Range(SeqRun(1, method, file_pairs, fs0, <<>>))

\* The auto selection of pair i has just returned (convert_single is at
\* "result['method_used'] = method_used", before it measures the output).
Selected(i) == method = "auto" /\ loc[i].pc = "stat_out"

\* C6 (as stated): after an auto selection in which at least one candidate
\* was encoded (its img.save returned) there is exactly one file: a whole
\* file at the output path and none at the temporary path; it is no larger
\* than any candidate that was encoded, and method_used names the candidate
\* it holds.
C6_SmallestCandidateKept ==
    \A i \in Tasks :
        (Selected(i) /\ loc[i].encoded # {}) =>
            LET file == fs[Out(i)] IN
            /\ file.state = "whole"
            /\ ~Exists(fs, temp_path(Out(i)))
            /\ \A m \in loc[i].encoded : file.size <= Enc(i)[m]
            /\ file.by = i
            /\ file.enc = loc[i].result.method_used
            /\ file.size = Enc(i)[loc[i].result.method_used]

\* C7: if every candidate of the auto policy fails to encode, the outcome
\* has success = false and no file is at the output path afterwards,
\* whatever was at the output path before the call.
C7_TotalFailureLeavesNoFile ==
    \A i \in Tasks :
        (/\ method = "auto" /\ Private(i) /\ Kind(i) = "ok"
         /\ Encodable(i) = {} /\ HasOutcome(i)) =>
            /\ ~loc[i].result.success
            /\ ~Exists(fs, Out(i))

\* C8 (as stated): an encode failure of one candidate does not end the
\* selection: every candidate is attempted, a later candidate that is
\* encoded after an earlier one failed is the one kept and reported, and the
\* outcome is a failure only when no candidate was encoded.
C8_FailureOfOneCandidate ==
    \A i \in Tasks :
        (method = "auto" /\ Kind(i) = "ok") =>
            /\ (Selected(i) \/ HasOutcome(i)) =>
                  loc[i].tried = {"lossless", "lossy"}
            /\ (Selected(i) /\ Enc(i).lossless = 0 /\ "lossy" \in loc[i].encoded) =>
                  /\ loc[i].result.method_used = "lossy"
                  /\ fs[Out(i)].enc = "lossy" /\ fs[Out(i)].by = i
            /\ (HasOutcome(i) /\ ~loc[i].result.success) => loc[i].encoded = {}

\* C9: during a conversion, fixed or auto, the output path never holds a
\* partially written file: at every state it holds no file or a whole one.
C9_OutputNeverPartial ==
    \A i \in Tasks :
        Out(i).dir # BadDir => fs[Out(i)].state \in {"absent", "whole"}

\* C10: a filesystem error while creating the output directory is surfaced
\* per pair: convert_batch returns, and the pair has an outcome in results
\* with success = false and an error string.
C10_MkdirErrorBecomesOutcome ==
    (max_workers >= 1 /\ mainpc \in {"returned", "raised"}) =>
        /\ mainpc = "returned"
        /\ \A i \in Tasks :
              /\ OutcomesOf(i) # {}
              /\ Out(i).dir = BadDir =>
                    \A k \in OutcomesOf(i) :
                        ~results[k].success /\ results[k].error # None

\* The arguments convert_batch accepts: a list with at least one pair and a
\* worker count the pool accepts.
ValidBatch == N >= 1 /\ max_workers >= 1

\* C11: convert_batch raises only for an empty list of pairs or an invalid
\* worker count; for every non-empty list and valid worker count it returns
\* the result list, and every pair that failed has its error recorded in its
\* outcome.
C11_BatchRaisesOnlyOnInvalidInput ==
    /\ mainpc = "raised" => ~ValidBatch
    /\ (ValidBatch /\ mainpc \in {"returned", "raised"}) =>
          /\ Returned
          /\ \A i \in Tasks : OutcomesOf(i) # {}
          /\ \A k \in 1..Len(results) :
                ~results[k].success => results[k].error # None

\* The call of calculate_aspect_ratio_resize has returned.
Resized == new_size # <<>>

\* The image is relatively wider than the target box: w/h > W/H.
Wider == original_size[1] * target_size[2] > target_size[1] * original_size[2]

\* C12: the size returned fits the target box, dw <= W and dh <= H, and
\* fills it on one axis, dw = W or dh = H.
C12_FitsTargetBox ==
    Resized =>
        /\ new_size[1] <= target_size[1]
        /\ new_size[2] <= target_size[2]
        /\ new_size[1] = target_size[1] \/ new_size[2] = target_size[2]

\* A wider image scaled down: the width is the target's, the height is
\* positive and below the target's.
C12_Witness ==
    /\ Resized
    /\ Wider
    /\ new_size[1] = target_size[1]
    /\ new_size[2] >= 1
    /\ new_size[2] < target_size[2]
    /\ original_size[1] > target_size[1]

\* round(x, 2) of a positive float x, in hundredths: the multiple of 0.01
\* nearest to the value of x, the even one of two equally near.
RoundHundredths(x) ==
    LET p == BigTimes(x.m, 100)
        s == 0 - x.e
        down == BigShiftRight(p, s)
        cut == BigMinus(p, BigShiftLeft(down, s))
        half == BigShiftLeft(Big(1), s - 1)
    IN IF BigLess(half, cut) \/ (cut = half /\ BigOdd(down))
       THEN BigInt(down) + 1
       ELSE BigInt(down)

\* round(a / b, 2) in hundredths, for ints a >= 0 and b > 0.
Ratio2(a, b) == IF a = 0 THEN 0 ELSE RoundHundredths(IntOverInt(a, b))

\* C13 as stated: the size returned has the aspect ratio of the original to
\* two decimals, round(dw/dh, 2) = round(w/h, 2).
C13_AspectToTwoDecimals ==
    Resized =>
        /\ new_size[2] > 0
        /\ Ratio2(new_size[1], new_size[2])
              = Ratio2(original_size[1], original_size[2])

\* C13 amended: the aspect ratio is kept up to the cutting off of one side.
\* One side is the target's and the other is the exactly proportional length
\* cut down to an integer, at most one below it: for w/h > W/H, dw = W and
\* W*h/w - 1 <= dh <= W*h/w; otherwise dh = H and H*w/h - 1 <= dw <= H*w/h.
C13_AspectUpToTruncation ==
    Resized =>
        LET w == original_size[1]
            h == original_size[2]
            dw == new_size[1]
            dh == new_size[2]
        IN IF Wider
           THEN /\ dw = target_size[1]
                /\ dh * w <= dw * h
                /\ dw * h - dh * w <= w
           ELSE /\ dh = target_size[2]
                /\ dw * h <= dh * w
                /\ dh * w - dw * h <= h

\* A size whose cut side lost a fraction, and whose aspect ratio differs from
\* the original's in the first two decimals.
C13_Witness ==
    /\ Resized
    /\ Wider
    /\ new_size[2] > 0
    /\ new_size[1] * original_size[2] > new_size[2] * original_size[1]
    /\ Ratio2(new_size[1], new_size[2])
          # Ratio2(original_size[1], original_size[2])

\* C14: 800x600 into 512x512 gives (512, 384), 300x600 into 512x512 gives
\* (256, 512), and in general the size returned is (W, floor(W*h/w)) when
\* w/h > W/H and (floor(H*w/h), H) otherwise.
C14_ResultIsFloorOfProportion ==
    Resized =>
        LET w == original_size[1]
            h == original_size[2]
            W == target_size[1]
            H == target_size[2]
        IN /\ (original_size = <<800, 600>> /\ target_size = <<512, 512>>)
                 => new_size = <<512, 384>>
           /\ (original_size = <<300, 600>> /\ target_size = <<512, 512>>)
                 => new_size = <<256, 512>>
           /\ new_size = IF Wider
                         THEN <<W, (W * h) \div w>>
                         ELSE <<(H * w) \div h, H>>

\* The session directories, and whether the sweep begun last has ended
\* (cleanup_old_sessions has returned, or an exception has left it).
SessionDirs == (DOMAIN Bases) \X SessionIds
SweepOver == spc \in {"sleep", "dead"}

\* C15 (as stated): after a sweep, a session directory that was modified
\* more than SESSION_MAX_AGE before the sweep read the clock, that nothing
\* modified meanwhile and whose deletion cannot fail, no longer exists.
C15_StaleDirectoryGone ==
    SweepOver =>
        \A d \in SessionDirs :
            LET e0 == tree0[d[1]][d[2]] IN
            (e0.kind = "dir" /\ e0.fault = "none"
                /\ now - e0.mtime > SESSION_MAX_AGE)
            => tree[d[1]][d[2]] # e0

\* A session directory whose age was below SESSION_MAX_AGE when the sweep
\* under way read the clock.
YoungAtStart(d) ==
    /\ tree0[d[1]][d[2]].kind = "dir"
    /\ now - tree0[d[1]][d[2]].mtime < SESSION_MAX_AGE

\* A step of cleanup_old_sessions after it has read the clock.
SweepStep ==
    \/ ListBase
    \/ IsDir
    \/ StatFolder
    \/ RemoveFolder
    \/ \E name \in entries : UnlinkFile(name)
    \/ RmdirFolder

\* C16: no step of a sweep changes a session directory whose age was below
\* SESSION_MAX_AGE when the sweep began: neither the directory nor a file
\* in it, whatever the sweep deletes and whatever requests do meanwhile;
\* so, when no request has been served, such a directory is after the
\* sweep exactly what it was before.
C16_YoungDirectoryUntouched ==
    /\ [][/\ ReadClock => tree' = tree
          /\ SweepStep =>
                \A d \in SessionDirs :
                    YoungAtStart(d) => tree'[d[1]][d[2]] = tree[d[1]][d[2]]]_vars
    /\ [](\A d \in SessionDirs :
             (SweepOver /\ requests = 0 /\ YoungAtStart(d))
                => tree[d[1]][d[2]] = tree0[d[1]][d[2]])

\* A sweep has returned that removed one directory and left a young one as
\* it was, while no request was served.
C16_Witness ==
    /\ spc = "sleep"
    /\ requests = 0
    /\ \E d \in SessionDirs :
          /\ tree0[d[1]][d[2]].kind = "dir"
          /\ now - tree0[d[1]][d[2]].mtime < SESSION_MAX_AGE
          /\ tree[d[1]][d[2]] = tree0[d[1]][d[2]]
    /\ \E d \in SessionDirs :
          /\ tree0[d[1]][d[2]].kind = "dir"
          /\ tree[d[1]][d[2]].kind = "absent"

\* C17 (as stated): no error met while a directory is examined or deleted
\* ends the cleanup thread, and when a sweep has returned every directory
\* that was stale, was not modified and has no fault is gone, whatever
\* happened to the others.
C17_ErrorsSwallowedPerDirectory ==
    /\ spc # "dead"
    /\ spc = "sleep" =>
          \A d \in SessionDirs :
              LET e0 == tree0[d[1]][d[2]] IN
              (e0.kind = "dir" /\ e0.fault = "none"
                  /\ now - e0.mtime > SESSION_MAX_AGE)
              => tree[d[1]][d[2]].kind = "absent" \/ tree[d[1]][d[2]].mtime >= now

\* C18 (as stated): when a sweep has returned and no request has been
\* served, the upload directory and the conversion directory of every
\* session id are both as they were when the sweep began, or are both gone
\* with everything in them.
C18_RemovedOrKeptAsAWhole ==
    (spc = "sleep" /\ requests = 0) =>
        \A session_id \in SessionIds :
            \/ \A b \in DOMAIN Bases : tree[b][session_id] = tree0[b][session_id]
            \/ \A b \in DOMAIN Bases : tree[b][session_id] = NoEntry

\* What the step that ends a call for the directory of session_id in base b
\* has to show: the call returns that directory without raising, the
\* directory exists, is as it was when it existed, and every other entry is
\* left alone.
Idempotent(b, session_id) ==
    /\ last'.ret = Path(Bases[b], session_id)
    /\ ~last'.raised
    /\ tree'[b][session_id].kind = "dir"
    /\ tree[b][session_id].kind = "dir"
          => tree'[b][session_id] = tree[b][session_id]
    /\ \A c \in DOMAIN Bases : \A n \in Names :
          <<c, n>> # <<b, session_id>> => tree'[c][n] = tree[c][n]

\* The first step of a call: it ends the call as required, or it found the
\* name taken, changed nothing and goes on.
Begun(b, session_id) ==
    IF last'.pc = "is_dir" THEN tree' = tree ELSE Idempotent(b, session_id)

\* C19 (as stated): every call of session_upload_dir and of
\* session_conversion_dir returns the directory of the session id in its
\* base, creates it when it is absent, and neither raises nor changes
\* anything when it exists.
C19_SessionDirIdempotent ==
    [][/\ \A session_id \in SessionIds :
            /\ session_upload_dir(session_id) => Begun(1, session_id)
            /\ session_conversion_dir(session_id) => Begun(2, session_id)
       /\ MkdirIsDir => Idempotent(last.base, last.session_id)]_vars

\* The workers inside "with self._lock", and those that have left it.
Inside == {i \in Tasks : loc[i].pc = "locked"}
LeftBlock == {i \in Tasks : loc[i].pc \in {"return", "done"}}

\* C20: at most one worker is inside the with block, it is the one that
\* holds the lock, and results holds one outcome for each worker that has
\* left the block and none for the others.
C20_AppendUnderLock ==
    /\ Cardinality(Inside) <= 1
    /\ \A i \in Inside : lock = i
    /\ Inside = {} => lock = 0
    /\ \A i \in Tasks :
          Cardinality(OutcomesOf(i)) = IF i \in LeftBlock THEN 1 ELSE 0
    /\ Len(results) = Cardinality(LeftBlock)

\* One worker is inside the with block while another waits for the lock.
C20_Witness ==
    /\ \E i \in Tasks : \E j \in Tasks \ {i} :
          loc[i].pc = "locked" /\ loc[j].pc = "append"
    /\ lock # 0

\* The paths the next statement of the call for pair i writes, renames or
\* deletes.
Mutates(i) ==
    LET pc == loc[i].pc
        out == Out(i)
        temp == temp_path(Out(i))
    IN IF pc \in {"a_open", "a_write", "a_discard", "x_unlink"} THEN {temp}
       ELSE IF pc = "a_rename" THEN {temp, out}
       ELSE IF pc \in {"a_unlink", "f_open", "f_write"} THEN {out}
       ELSE {}

\* C21 (as stated): the output paths of a batch being pairwise distinct,
\* two running calls are never both about to write, rename or delete the
\* same path, temporary paths included.
C21_NoSharedPath ==
    \A i \in Tasks : \A j \in Tasks \ {i} :
        Mutates(i) \cap Mutates(j) = {}

\* The two candidates of pair i both encode, to the same number of bytes.
Tie(i) == Enc(i).lossless > 0 /\ Enc(i).lossy = Enc(i).lossless

\* C22 (as stated): after an auto selection in which both candidates were
\* encoded with equal size, the output path holds the lossless candidate,
\* tried first, and method_used names it; and whenever the second candidate
\* is reported while the first one was encoded, the second is strictly
\* smaller.
C22_TieKeepsFirst ==
    \A i \in Tasks :
        Selected(i) =>
            /\ (Tie(i) /\ loc[i].encoded = {"lossless", "lossy"}) =>
                  /\ loc[i].result.method_used = Methods[1]
                  /\ fs[Out(i)].enc = Methods[1]
                  /\ fs[Out(i)].by = i
                  /\ fs[Out(i)].state = "whole"
            /\ (loc[i].result.method_used = Methods[2]
                   /\ "lossless" \in loc[i].encoded)
                  => Enc(i).lossy < Enc(i).lossless

\* C23 (as stated): the pairs of the batch a convert request builds have
\* pairwise distinct output paths.
C23_DistinctOutputPaths ==
    handler.pc = "batch" =>
        \A i, j \in DOMAIN handler.file_pairs :
            i # j => handler.file_pairs[i][2] # handler.file_pairs[j][2]

\* C24 (as stated): both components of the size the function returns are
\* at least 1.
C24_ResultIsPositive ==
    Resized => (new_size[1] >= 1 /\ new_size[2] >= 1)

====
